---- MODULE Spec2Model ----
(***************************************************************************)
(* TaskHome (src/app.py): the scheduler thread (startup reconciliation and *)
(* the one-minute tick loop), the recurrence calculator, the SeeClickFix   *)
(* listener, the bounded print history and the request handlers that       *)
(* mutate the same stores.                                                 *)
(*                                                                         *)
(* Timestamps.  A stored ISO-8601 string is modelled by its fields         *)
(* <<year, month, day, second-of-day>>; a datetime object is modelled by   *)
(* the number of seconds since 2024-01-01T00:00:00 (a Monday).             *)
(* fromisoformat / isoformat / strftime convert between the two.           *)
(***************************************************************************)
EXTENDS Integers, Sequences, FiniteSets, TLC

\* ------------------------------------------------------------------ bounds
MaxTasks == 2        \* tasks in the store at any time
MaxTicks == 2        \* iterations of the main loop that are explored
MaxIssues == 2       \* issues the external source ever holds
MaxRequests == 1     \* web requests served during the run
MaxHistoryInput == 2 \* largest max_history a settings request submits
MaxMonth == 14       \* calendar horizon, months after January 2024
SeriesDepth == 4     \* occurrences of a recurrence series that are listed
CalcMonths == 3      \* months of 2024 the arguments of calculate_next span
CalcCalls == 2       \* calls of calculate_next that feed one another

\* --------------------------------------------------------------- calendar
Day == 86400
Hour == 3600
Minute == 60
EpochYear == 2024

IsLeap(y) == (y % 4 = 0 /\ y % 100 # 0) \/ y % 400 = 0

DaysInMonth(y, m) ==
    IF m = 2 THEN (IF IsLeap(y) THEN 29 ELSE 28)
    ELSE IF m \in {4, 6, 9, 11} THEN 30 ELSE 31

\* months are also counted from January of EpochYear: index 0, 1, 2, ...
MonthIndex(y, m) == (y - EpochYear) * 12 + (m - 1)
YearOf(mi) == EpochYear + (mi \div 12)
MonthOf(mi) == (mi % 12) + 1

RECURSIVE MonthStart(_)
\* day number (0 = 2024-01-01) of the first day of month index mi
MonthStart(mi) ==
    IF mi = 0 THEN 0
    ELSE MonthStart(mi - 1) + DaysInMonth(YearOf(mi - 1), MonthOf(mi - 1))

\* ------------------------------------------------- strings <-> datetimes
BadStamp == <<2024, 0, 0, 0>>     \* a next_time string that does not parse
NULL == <<>>                      \* JSON null / Python None

IsValidIso(s) ==
    /\ Len(s) = 4
    /\ s[1] >= EpochYear
    /\ s[2] \in 1..12
    /\ s[3] \in 1..DaysInMonth(s[1], s[2])
    /\ s[4] \in 0..(Day - 1)

\* datetime.fromisoformat(s); the caller checks IsValidIso (ValueError)
FromIso(s) == (MonthStart(MonthIndex(s[1], s[2])) + (s[3] - 1)) * Day + s[4]

\* datetime.isoformat() / strftime('%Y-%m-%dT%H:%M:%SZ')
IsoFormat(t) ==
    LET dn == t \div Day
        mi == CHOOSE k \in 0..MaxMonth :
                  MonthStart(k) <= dn /\ dn < MonthStart(k + 1)
    IN  <<YearOf(mi), MonthOf(mi), dn - MonthStart(mi) + 1, t % Day>>

\* datetime.weekday(): Monday = 0 ... Sunday = 6
Weekday(t) == (t \div Day) % 7

\* ------------------------------------------------------- calculate_next
NONE == "none"
MISSING == "<missing>"            \* a task record without 'recurring'
CALC_ERR == <<-1>>                \* calculate_next raised OverflowError

AddMonth_Same(t) == t

\* next_time + relativedelta(months=1): same day of the next month,
\* clamped to that month's last day
AddMonth(t) ==
    LET s == IsoFormat(t)
        mi == MonthIndex(s[1], s[2]) + 1
        dim == DaysInMonth(YearOf(mi), MonthOf(mi))
        d == IF s[3] > dim THEN dim ELSE s[3]
    IN  (MonthStart(mi) + d - 1) * Day + s[4]

\* next_time + relativedelta(months=1, day=1)
FirstOfNextMonth(t) ==
    LET s == IsoFormat(t)
        mi == MonthIndex(s[1], s[2]) + 1
    IN  MonthStart(mi) * Day + s[4]

NextDayIn_NoSkip(t, days, n) == t + Day

RECURSIVE NextDayIn(_, _, _)
\* while True: next_time += 1 day; if next_time.weekday() in days: return.
\* Seven consecutive days cover every weekday: when none of them matches,
\* none ever will, and the loop runs until datetime.max and the addition
\* raises OverflowError.
NextDayIn(t, days, n) ==
    IF n = 0 THEN -1
    ELSE IF Weekday(t + Day) \in days THEN t + Day
    ELSE NextDayIn(t + Day, days, n - 1)

DailyStep_Two == 1 + 1

\* timedelta(days=1) of the daily kind
DailyStep == 1
WeeklyStep == 7

calculate_next(next_time_str, recurring, days) ==
    LET next_time == FromIso(next_time_str) IN
    IF recurring = "daily" THEN IsoFormat(next_time + DailyStep * Day)
    ELSE IF recurring = "weekly" THEN IsoFormat(next_time + WeeklyStep * Day)
    ELSE IF recurring = "monthly" THEN IsoFormat(AddMonth(next_time))
    ELSE IF recurring = "every_weekday"
         THEN IsoFormat(NextDayIn(next_time, 0..4, 7))
    ELSE IF recurring = "first_day_month"
         THEN IsoFormat(FirstOfNextMonth(next_time))
    ELSE IF recurring = "custom"
         THEN LET r == NextDayIn(next_time, days, 7)
              IN  IF r = -1 THEN CALC_ERR ELSE IsoFormat(r)
    ELSE next_time_str


\* ------------------------------------------------------------------ state
VARIABLES
    tasks,        \* tasks: the list of task dicts, in list order
    history,      \* history: printed items, most recent first
    max_history,  \* config['max_history']
    scf,          \* listeners['scf']
    issues,       \* the issues the external source holds
    now_utc,      \* the wall clock, as datetime.now(timezone.utc) reads it
    tz,           \* offset of the host's local time from UTC, in seconds
    pc,           \* where the scheduler thread is
    ridx,         \* reconciliation: position of `for task in tasks`
    ns,           \* reconciliation: the local next_time_str, NULL outside
                  \* the while loop
    snap,         \* main loop: the copy tasks[:] the sweep iterates
    idx,          \* main loop: position in snap
    ticks,        \* main-loop iterations started
    requests,     \* web requests served
    next_id,      \* stands for uuid4(): the next unused task id
    tasks0,       \* the task list as load_data left it
    now0,         \* the clock when scheduler_loop started
    printLog,     \* every call print_task(task): <<tick, id, recurring,
                  \* printed>>, printed FALSE when the printer was not
                  \* connected or printing raised
    fetchLog,     \* every requests.get: [tick, after, ok, last_check]
    rendered,     \* ids of issues print_scf_issue put on paper
    returned,     \* ids of issues a successful fetch returned
    tickInfo,     \* per tick: what was due, what was processed, what raised
    histOp,       \* the last operation on history
    calc,         \* a call of calculate_next: its arguments and result
    deleteLog,    \* every completed delete_task: the id, the length of
                  \* printLog and the tick at that moment
    inflight,     \* the listener block between binding scf (line 313) and
                  \* the end of the check: the dict it holds, and whether
                  \* listeners['scf'] has been replaced since
    deleting      \* a delete_task inside its list comprehension: the id,
                  \* the iterator's position, the list built so far

vars == <<tasks, history, max_history, scf, issues, now_utc, tz, pc, ridx,
          ns, snap, idx, ticks, requests, next_id, tasks0, now0, printLog,
          fetchLog, rendered, returned, tickInfo, histOp, calc,
          deleteLog, inflight, deleting>>

schedVars == <<pc, ridx, ns, snap, idx, ticks>>
logVars == <<printLog, fetchLog, rendered, returned, tickInfo, histOp>>
startVars == <<tasks0, now0, tz>>
calcVars == <<calc>>
raceVars == <<deleteLog, inflight, deleting>>

\* ---------------------------------------------------------------- helpers
Ids(ts) == {ts[i].id : i \in 1..Len(ts)}

Remove_Keeps(ts, task) == ts

\* list.remove(x): drop the first element equal to x (ValueError when
\* absent: the caller checks membership)
Remove(ts, task) ==
    LET k == CHOOSE i \in 1..Len(ts) :
                 ts[i] = task /\ \A j \in 1..(i - 1) : ts[j] # task
    IN  [i \in 1..(Len(ts) - 1) |-> IF i < k THEN ts[i] ELSE ts[i + 1]]

Contains(ts, task) == \E i \in 1..Len(ts) : ts[i] = task

\* the dict object of the store that has this id (object identity)
Live(ts, id) == ts[CHOOSE i \in 1..Len(ts) : ts[i].id = id]

Truncate_Off(h, m) == h

\* history[:max_history]
Truncate(h, m) == IF Len(h) > m THEN SubSeq(h, 1, m) ELSE h

\* history.insert(0, entry); history[:] = history[:config['max_history']]
InsertHistory(h, entry, m) == Truncate(<<entry>> \o h, m)

ReconPast_OrEqual(next_time, now) == next_time <= now

\* line 286: while next_time < now
ReconPast(next_time, now) == next_time < now

\* line 303: if next_time <= now
TickDue(next_time, now) == next_time <= now

\* datetime.now(): the naive local wall clock
LocalNow == now_utc + tz

NoTick == [due |-> {}, fired |-> {}, advanced |-> {}, listener |-> FALSE,
           raised |-> "", by |-> 0]

\* -------------------------------------------------------- initial stores
Task(nt, rec, days, en) ==
    [next_time |-> nt, recurring |-> rec, days |-> days, enabled |-> en]

Jan1 == <<2024, 1, 1, 9 * Hour>>            \* 2024-01-01T09:00:00
Jan3At9 == <<2024, 1, 3, 9 * Hour>>         \* 2024-01-03T09:00:00
Jan3Soon == <<2024, 1, 3, 9 * Hour + 60>>   \* 2024-01-03T09:01:00

DailyJan1 == Task(Jan1, "daily", {}, TRUE)
OnceSoon == Task(Jan3Soon, NONE, {}, TRUE)
OnceAt9 == Task(Jan3At9, NONE, {}, TRUE)

\* stored tasks that come first in a store of two
FirstTemplates ==
    { DailyJan1,
      Task(Jan1, NONE, {}, TRUE),
      Task(Jan1, "custom", {}, TRUE),
      Task(BadStamp, "daily", {}, TRUE),
      Task(Jan1, MISSING, {}, TRUE) }

\* stored tasks that come second in a store of two
SecondTemplates == {DailyJan1, OnceAt9}

\* stored tasks that are explored alone
SoloTemplates ==
    FirstTemplates \cup SecondTemplates \cup
    { OnceSoon,
      Task(Jan1, "daily", {}, FALSE),
      Task(Jan3Soon, "daily", {}, TRUE),
      Task(Jan1, "weekly", {}, TRUE),
      Task(Jan1, "monthly", {}, TRUE),
      Task(Jan1, "every_weekday", {}, TRUE),
      Task(Jan1, "first_day_month", {}, TRUE),
      Task(Jan1, "custom", {2}, TRUE) }

WithId(t, id) ==
    [id |-> id, next_time |-> t.next_time, recurring |-> t.recurring,
     days |-> t.days, enabled |-> t.enabled]

InitStores ==
    {<<>>}
    \cup {<<WithId(a, 1)>> : a \in SoloTemplates}
    \cup {<<WithId(a, 1), WithId(b, 2)>> : a \in FirstTemplates,
                                           b \in SecondTemplates}

\* the instants at which the process starts
StartAt9 == FromIso(<<2024, 1, 3, 9 * Hour>>)
StartPast9 == FromIso(<<2024, 1, 3, 9 * Hour + 1>>)

\* how far the clock moves over one time.sleep(60) and the tick before it
ClockSteps == {Minute, Day}

Listener(en, rt, iv, lc) ==
    [enabled |-> en, request_types |-> rt, interval |-> iv,
     last_check |-> lc]

DefaultInterval == 10

DefaultListener == Listener(FALSE, "6632,6634", DefaultInterval, NULL)

EnabledListeners ==
    { Listener(TRUE, "6632", DefaultInterval, NULL),
      Listener(TRUE, "6632", DefaultInterval, <<2024, 1, 3, 9 * Hour - 900>>) }

InitMaxHistory == 2   \* config['max_history'] as loaded (the bound of history)

Config(ts, l, off, start) ==
    [tasks |-> ts, scf |-> l, tz |-> off, start |-> start]

\* what load_data finds on disk, the host's timezone, the start instant
InitConfigs ==
    {Config(ts, DefaultListener, 0, StartAt9) : ts \in InitStores}
    \cup {Config(<<WithId(a, 1)>>, DefaultListener, 0, StartPast9) :
             a \in {DailyJan1, OnceSoon, Task(Jan1, NONE, {}, TRUE)}}
    \cup {Config(<<>>, l, 0, StartAt9) : l \in EnabledListeners}
    \cup {Config(<<WithId(OnceAt9, 1), WithId(DailyJan1, 2)>>,
                 DefaultListener, 0, StartAt9)}
    \cup {Config(<<WithId(a, 1)>>, DefaultListener, -5 * Hour, StartPast9) :
             a \in {DailyJan1, OnceSoon, Task(Jan3Soon, "daily", {}, TRUE)}}

\* no delete_task is inside its list comprehension
NoDelete == [on |-> FALSE, id |-> 0, pos |-> 0, acc |-> <<>>, before |-> {}]

\* the scheduler thread is not inside the listener block
NoFetch == [on |-> FALSE, stale |-> FALSE, l |-> NULL]

\* no call of calculate_next is being followed
NoCalc == [t |-> NULL, kind |-> NONE, days |-> {}, out |-> NULL, n |-> 0]

Init ==
    /\ \E c \in InitConfigs :
         tasks = c.tasks /\ scf = c.scf /\ tz = c.tz /\ now_utc = c.start
    /\ tasks0 = tasks
    /\ history = <<>>
    /\ max_history = InitMaxHistory
    /\ issues = <<>>
    /\ now0 = now_utc
    /\ pc = "recon"
    /\ ridx = 1
    /\ ns = NULL
    /\ snap = <<>>
    /\ idx = 1
    /\ ticks = 0
    /\ requests = 0
    /\ next_id = Len(tasks) + 1
    /\ printLog = <<>>
    /\ fetchLog = <<>>
    /\ rendered = {}
    /\ returned = {}
    /\ tickInfo = NoTick
    /\ histOp = ""
    /\ calc = NoCalc
    /\ deleteLog = <<>>
    /\ inflight = NoFetch
    /\ deleting = NoDelete

\* ------------------------------------------- scheduler_loop: reconciliation
\* for task in tasks: skip a disabled task, otherwise read and parse
\* task['next_time'] (a ValueError is caught per task, line 290)
ReconTask ==
    /\ pc = "recon" /\ ridx <= Len(tasks) /\ ns = NULL
    /\ LET task == tasks[ridx] IN
         IF ~task.enabled \/ ~IsValidIso(task.next_time)
         THEN /\ ridx' = ridx + 1
              /\ ns' = NULL
         ELSE /\ ns' = task.next_time
              /\ ridx' = ridx
    /\ UNCHANGED <<tasks, history, max_history, scf, issues, now_utc, pc,
                   snap, idx, ticks, requests, next_id>>
    /\ UNCHANGED <<logVars, startVars, calcVars, raceVars>>

ReconPrints_CatchUp ==
    /\ printLog' = Append(printLog, <<ticks, tasks[ridx].id,
                                      tasks[ridx].recurring, TRUE>>)
    /\ history' = InsertHistory(history,
                       [type |-> "task", id |-> tasks[ridx].id,
                        print_time |-> IsoFormat(LocalNow)], max_history)
    /\ histOp' = "insert"

\* lines 286-289 hold no call of print_task
ReconPrints == UNCHANGED <<printLog, history, histOp>>

\* one test of `while next_time < now`, and the loop body or the assignment
\* after the loop.  For kind 'none' calculate_next returns its argument: the
\* body changes nothing, the test is true again, and the loop does not end.
ReconWhile ==
    /\ pc = "recon" /\ ridx <= Len(tasks) /\ ns # NULL
    /\ LET task == tasks[ridx] IN
         IF ReconPast(FromIso(ns), now_utc)
         THEN IF task.recurring = MISSING
              THEN \* KeyError, caught per task
                   /\ ridx' = ridx + 1 /\ ns' = NULL /\ tasks' = tasks
              ELSE LET r == calculate_next(ns, task.recurring, task.days) IN
                   IF r = CALC_ERR
                   THEN \* OverflowError, caught per task
                        /\ ridx' = ridx + 1 /\ ns' = NULL /\ tasks' = tasks
                   ELSE /\ ns' = r /\ ridx' = ridx /\ tasks' = tasks
         ELSE /\ tasks' = [tasks EXCEPT ![ridx].next_time = ns]
              /\ ridx' = ridx + 1
              /\ ns' = NULL
    /\ ReconPrints
    /\ UNCHANGED <<max_history, scf, issues, now_utc, pc, snap, idx, ticks,
                   requests, next_id, fetchLog, rendered, returned,
                   tickInfo>>
    /\ UNCHANGED <<startVars, calcVars, raceVars>>

\* the for loop is exhausted: save_tasks() and enter `while True`
ReconDone ==
    /\ pc = "recon" /\ ridx > Len(tasks)
    /\ pc' = "tick"
    /\ UNCHANGED <<tasks, history, max_history, scf, issues, now_utc, ridx,
                   ns, snap, idx, ticks, requests, next_id>>
    /\ UNCHANGED <<logVars, startVars, calcVars, raceVars>>

\* ------------------------------------------------- scheduler_loop: the tick
\* the tasks the sweep would fire: enabled, parsable, next_time <= now
DueIds(ts) ==
    {ts[i].id : i \in {j \in 1..Len(ts) :
        /\ ts[j].enabled
        /\ IsValidIso(ts[j].next_time)
        /\ TickDue(FromIso(ts[j].next_time), LocalNow)}}

\* now = datetime.now(); now_utc = ...; the iterable tasks[:] is built
TickStart ==
    /\ pc = "tick"
    /\ pc' = "sweep"
    /\ snap' = tasks
    /\ idx' = 1
    /\ ticks' = ticks + 1
    /\ tickInfo' = [NoTick EXCEPT !.due = DueIds(tasks)]
    /\ UNCHANGED <<tasks, history, max_history, scf, issues, now_utc, ridx,
                   ns, requests, next_id, printLog, fetchLog, rendered,
                   returned, histOp>>
    /\ UNCHANGED <<startVars, calcVars, raceVars>>

\* an exception leaves the try block of the tick: line 366, then the sleep
Abort(name, id, printed) ==
    /\ pc' = "sleep"
    /\ tickInfo' = [tickInfo EXCEPT !.raised = name, !.by = id,
                       !.fired = IF printed THEN @ \cup {id} ELSE @]

PrintTaskHistory_Always(task, ok) ==
    InsertHistory(history, [type |-> "task", id |-> task.id,
                            print_time |-> IsoFormat(LocalNow)], max_history)

\* print_task(task): nothing is recorded when the printer is not connected
\* or when printing raises (task['recurring'] missing raises inside its try)
PrintTaskHistory(task, ok) ==
    IF ok /\ task.recurring # MISSING
    THEN InsertHistory(history, [type |-> "task", id |-> task.id,
                             print_time |-> IsoFormat(LocalNow)], max_history)
    ELSE history

PrintTaskOp(task, ok) ==
    IF ok /\ task.recurring # MISSING
    THEN (IF Len(history) + 1 > max_history THEN "insert_drop" ELSE "insert")
    ELSE histOp

\* the body of `for task in tasks[:]` for one element
SweepTask ==
    /\ pc = "sweep" /\ idx <= Len(snap)
    /\ LET id == snap[idx].id
           task == IF id \in Ids(tasks) THEN Live(tasks, id) ELSE snap[idx]
       IN
         IF ~task.enabled
         THEN /\ idx' = idx + 1
              /\ UNCHANGED <<tasks, history, pc, printLog, tickInfo, histOp>>
         ELSE IF ~IsValidIso(task.next_time)
         THEN \* fromisoformat raises ValueError
              /\ Abort("ValueError", id, FALSE)
              /\ UNCHANGED <<tasks, history, idx, printLog, histOp>>
         ELSE IF ~TickDue(FromIso(task.next_time), LocalNow)
         THEN /\ idx' = idx + 1
              /\ UNCHANGED <<tasks, history, pc, printLog, tickInfo, histOp>>
         ELSE \E ok \in BOOLEAN :
              /\ history' = PrintTaskHistory(task, ok)
              /\ histOp' = PrintTaskOp(task, ok)
              /\ printLog' = Append(printLog,
                     <<ticks, id, task.recurring, ok>>)
              /\ IF task.recurring = MISSING
                 THEN /\ Abort("KeyError", id, TRUE)
                      /\ UNCHANGED <<tasks, idx>>
                 ELSE IF task.recurring = NONE
                 THEN IF Contains(tasks, task)
                      THEN /\ tasks' = Remove(tasks, task)
                           /\ idx' = idx + 1
                           /\ pc' = pc
                           /\ tickInfo' = [tickInfo EXCEPT
                                  !.fired = @ \cup {id},
                                  !.advanced = @ \cup {id}]
                      ELSE \* list.remove raises ValueError
                           /\ Abort("ValueError", id, TRUE)
                           /\ UNCHANGED <<tasks, idx>>
                 ELSE LET r == calculate_next(task.next_time, task.recurring,
                                              task.days) IN
                      IF r = CALC_ERR
                      THEN /\ Abort("OverflowError", id, TRUE)
                           /\ UNCHANGED <<tasks, idx>>
                      ELSE /\ tasks' = IF id \in Ids(tasks)
                                THEN [i \in 1..Len(tasks) |->
                                        IF tasks[i].id = id
                                        THEN [tasks[i] EXCEPT !.next_time = r]
                                        ELSE tasks[i]]
                                ELSE tasks
                           /\ idx' = idx + 1
                           /\ pc' = pc
                           /\ tickInfo' = [tickInfo EXCEPT
                                  !.fired = @ \cup {id},
                                  !.advanced = @ \cup {id}]
    /\ UNCHANGED <<max_history, scf, issues, now_utc, ridx, ns, snap, ticks,
                   requests, next_id, fetchLog, rendered, returned>>
    /\ UNCHANGED <<startVars, calcVars, raceVars>>

\* ------------------------------------------------ the SeeClickFix listener
\* str.strip() on the filter strings the model uses
Strip(str) == IF str = " " THEN "" ELSE str

\* parser.parse(last_check), None for null or an unparsable string
LastCheckDt(lc) == IF lc # NULL /\ IsValidIso(lc) THEN FromIso(lc) ELSE -1

ListenerDue_NoInterval(l, now) ==
    l.enabled /\ Strip(l.request_types) # ""

\* line 314 and line 330
ListenerDue(l, now) ==
    /\ l.enabled
    /\ Strip(l.request_types) # ""
    /\ \/ LastCheckDt(l.last_check) = -1
       \/ now - LastCheckDt(l.last_check) >= l.interval * Minute

AfterParam_Lookback(l, now) == IsoFormat(now - Hour)

\* lines 333-336: the 'after' parameter of the request
AfterParam(l, now) ==
    IF LastCheckDt(l.last_check) = -1
    THEN IsoFormat(now - Hour)
    ELSE IsoFormat(LastCheckDt(l.last_check))

\* order of the ISO strings: field by field
StrLess(a, b) ==
    \E k \in 1..4 : a[k] < b[k] /\ \A j \in 1..(k - 1) : a[j] = b[j]

\* the issues the source returns for 'after': created strictly later
Matching(after) ==
    {i \in 1..Len(issues) : StrLess(after, issues[i].created_at)}

\* the response lists them in an order the source chooses
Orders(S) ==
    {q \in [1..Cardinality(S) -> S] :
        \A a, b \in 1..Cardinality(S) : a # b => q[a] # q[b]}

RECURSIVE InsertSorted(_, _)
InsertSorted(sorted, i) ==
    IF sorted = <<>> THEN <<i>>
    ELSE IF StrLess(issues[i].created_at, issues[Head(sorted)].created_at)
         THEN <<i>> \o sorted
         ELSE <<Head(sorted)>> \o InsertSorted(Tail(sorted), i)

SortByCreated_AsReturned(q) == q

RECURSIVE SortByCreated(_)
\* sorted(issues, key=lambda i: i['created_at']), stable
SortByCreated(q) ==
    IF Len(q) = 0 THEN <<>>
    ELSE InsertSorted(SortByCreated(SubSeq(q, 1, Len(q) - 1)), q[Len(q)])

RECURSIVE PrintIssues(_, _, _)
\* for issue in sorted(...): print_scf_issue(issue); oks are the issues for
\* which the printer was connected and printing did not raise
PrintIssues(q, oks, h) ==
    IF q = <<>> THEN h
    ELSE PrintIssues(Tail(q), oks,
             IF Head(q) \in oks
             THEN InsertHistory(h, [type |-> "scf", id |-> Head(q),
                                 print_time |-> IsoFormat(LocalNow)],
                                max_history)
             ELSE h)

\* scf['last_check'] after a check that fetched successfully (line 358)
CheckedAt(now) == IsoFormat(now)

\* lines 331-363 for the dict l the block holds: the request, the prints
\* and scf['last_check'] = now, which reaches listeners['scf'] when l still
\* is that dict (live)
ListenerFetch(l, live) ==
    LET after == AfterParam(l, now_utc) IN
    \E ok \in BOOLEAN :
      /\ fetchLog' = Append(fetchLog,
             [tick |-> ticks, after |-> after, ok |-> ok,
              last_check |-> l.last_check, now |-> now_utc])
      /\ IF ok
         THEN \E q \in Orders(Matching(after)) :
              \E oks \in SUBSET Matching(after) :
                /\ history' = PrintIssues(SortByCreated(q), oks, history)
                /\ histOp' = IF oks = {} THEN histOp
                     ELSE IF Len(history) + Cardinality(oks) > max_history
                          THEN "insert_drop" ELSE "insert"
                /\ rendered' = rendered \cup oks
                /\ returned' = returned \cup Matching(after)
                /\ scf' = IF live
                          THEN [scf EXCEPT !.last_check = CheckedAt(now_utc)]
                          ELSE scf
         ELSE \* requests.get / raise_for_status / json raised
              UNCHANGED <<history, histOp, rendered, returned, scf>>

\* the sweep is over: the listener block, then the tick ends
ListenerStep ==
    /\ pc = "sweep" /\ idx > Len(snap)
    /\ pc' = "sleep"
    /\ tickInfo' = [tickInfo EXCEPT !.listener = TRUE]
    /\ IF ListenerDue(scf, now_utc)
       THEN ListenerFetch(scf, TRUE)
       ELSE UNCHANGED <<fetchLog, history, histOp, rendered, returned, scf>>
    /\ UNCHANGED <<tasks, max_history, issues, now_utc, ridx, ns, snap, idx,
                   ticks, requests, next_id, printLog>>
    /\ UNCHANGED <<startVars, calcVars, raceVars>>

\* the listener block as far as requests.get: scf = listeners['scf'] is
\* bound, the conditions are read, the request is sent
ListenerBegin ==
    /\ pc = "sweep" /\ idx > Len(snap)
    /\ tickInfo' = [tickInfo EXCEPT !.listener = TRUE]
    /\ IF ListenerDue(scf, now_utc)
       THEN /\ pc' = "fetch"
            /\ inflight' = [on |-> TRUE, stale |-> FALSE, l |-> scf]
       ELSE /\ pc' = "sleep"
            /\ inflight' = inflight
    /\ UNCHANGED <<tasks, history, max_history, scf, issues, now_utc, ridx,
                   ns, snap, idx, ticks, requests, next_id, printLog,
                   fetchLog, rendered, returned, histOp, deleteLog,
                   deleting>>
    /\ UNCHANGED <<startVars, calcVars>>

\* the listener block from the response on, then the tick ends
ListenerEnd ==
    /\ pc = "fetch"
    /\ pc' = "sleep"
    /\ ListenerFetch(inflight.l, ~inflight.stale)
    /\ inflight' = NoFetch
    /\ UNCHANGED <<tasks, max_history, issues, now_utc, ridx, ns, snap, idx,
                   ticks, requests, next_id, printLog, tickInfo, deleteLog,
                   deleting>>
    /\ UNCHANGED <<startVars, calcVars>>

\* time.sleep(60), and the clock the next iteration reads
Sleep ==
    /\ pc = "sleep" /\ ticks < MaxTicks
    /\ pc' = "tick"
    /\ \E d \in ClockSteps : now_utc' = now_utc + d
    /\ UNCHANGED <<tasks, history, max_history, scf, issues, ridx, ns, snap,
                   idx, ticks, requests, next_id>>
    /\ UNCHANGED <<logVars, startVars, calcVars, raceVars>>

\* somebody reports an issue to the external source while the thread sleeps
NewIssue ==
    /\ pc = "sleep" /\ ticks < MaxTicks /\ Len(issues) < MaxIssues
    /\ scf.enabled /\ Strip(scf.request_types) # ""
    /\ issues' = Append(issues, [id |-> Len(issues) + 1,
                  created_at |-> IsoFormat(now_utc + Len(issues) + 1)])
    /\ UNCHANGED <<tasks, history, max_history, scf, now_utc, requests,
                   next_id>>
    /\ UNCHANGED <<schedVars, logVars, startVars, calcVars, raceVars>>

\* ------------------------------------------------------ request handlers
\* In Spec a request is served while the scheduler thread sleeps between two
\* ticks.
Serving == pc = "sleep" /\ ticks < MaxTicks /\ requests < MaxRequests

\* POST /settings with clear_history
ClearHistory ==
    /\ Serving
    /\ history' = <<>>
    /\ histOp' = "clear"
    /\ requests' = requests + 1
    /\ UNCHANGED <<tasks, max_history, scf, issues, now_utc, next_id,
                   printLog, fetchLog, rendered, returned, tickInfo>>
    /\ UNCHANGED <<schedVars, startVars, calcVars, raceVars>>

\* POST /settings: config['max_history'] = int(form['max_history']);
\* history[:] = history[:config['max_history']]
settings ==
    /\ Serving
    /\ \E m \in 0..MaxHistoryInput :
         /\ max_history' = m
         /\ history' = Truncate(history, m)
         /\ histOp' = IF Len(history) > m THEN "lower_drop" ELSE "settings"
    /\ requests' = requests + 1
    /\ UNCHANGED <<tasks, scf, issues, now_utc, next_id,
                   printLog, fetchLog, rendered, returned, tickInfo>>
    /\ UNCHANGED <<schedVars, startVars, calcVars, raceVars>>

\* form values of add_task: next_time ("" when left empty), recurring, days,
\* enabled
AddForms ==
    { Task(NULL, NONE, {}, TRUE),
      Task(Jan1, "daily", {}, TRUE) }

\* form values of edit_task
EditForms ==
    { Task(Jan1, "daily", {}, TRUE),
      Task(NULL, NONE, {}, FALSE) }

\* POST /add_task
add_task ==
    /\ Serving /\ Len(tasks) < MaxTasks
    /\ \E f \in AddForms :
         tasks' = Append(tasks,
             [id |-> next_id,
              next_time |-> IF f.next_time # NULL THEN f.next_time
                            ELSE IsoFormat(LocalNow),
              recurring |-> f.recurring,
              days |-> IF f.recurring = "custom" THEN f.days ELSE {},
              enabled |-> f.enabled])
    /\ next_id' = next_id + 1
    /\ requests' = requests + 1
    /\ UNCHANGED <<history, max_history, scf, issues, now_utc>>
    /\ UNCHANGED <<schedVars, logVars, startVars, calcVars, raceVars>>

\* POST /edit_task/<task_id> for a task that exists
edit_task ==
    /\ Serving
    /\ \E k \in 1..Len(tasks) : \E f \in EditForms :
         tasks' = [tasks EXCEPT ![k] =
             [id |-> tasks[k].id,
              next_time |-> IF f.next_time # NULL THEN f.next_time
                            ELSE tasks[k].next_time,
              recurring |-> f.recurring,
              days |-> IF f.recurring = "custom" THEN f.days ELSE {},
              enabled |-> f.enabled]]
    /\ requests' = requests + 1
    /\ UNCHANGED <<history, max_history, scf, issues, now_utc, next_id>>
    /\ UNCHANGED <<schedVars, logVars, startVars, calcVars, raceVars>>

\* tasks = [t for t in tasks if t['id'] != task_id]
Without(ts, id) == SelectSeq(ts, LAMBDA t : t.id # id)

\* the body of delete_task
DeleteTask ==
    /\ \E id \in Ids(tasks) :
         /\ tasks' = Without(tasks, id)
         /\ deleteLog' = Append(deleteLog,
                [id |-> id, prints |-> Len(printLog), tick |-> ticks,
                 before |-> Ids(tasks)])
    /\ requests' = requests + 1
    /\ UNCHANGED <<history, max_history, scf, issues, now_utc, next_id,
                   inflight, deleting>>
    /\ UNCHANGED <<schedVars, logVars, startVars, calcVars>>

\* POST /delete_task
delete_task == Serving /\ DeleteTask

\* form values of POST /listener: enabled, request_types, interval
ListenerForms ==
    { <<TRUE, "6632", 1>>, <<TRUE, " ", DefaultInterval>>,
      <<FALSE, "6632", DefaultInterval>> }

\* the body of listener() for a POST: listeners['scf'] becomes a new dict,
\* last_check carried over; a dict the scheduler holds is left behind
ListenerPost ==
    /\ \E f \in ListenerForms :
         scf' = Listener(f[1], f[2], f[3], scf.last_check)
    /\ inflight' = IF inflight.on THEN [inflight EXCEPT !.stale = TRUE]
                   ELSE inflight
    /\ requests' = requests + 1
    /\ UNCHANGED <<tasks, history, max_history, issues, now_utc, next_id,
                   deleteLog, deleting>>
    /\ UNCHANGED <<schedVars, logVars, startVars, calcVars>>

\* POST /listener
listener == Serving /\ ListenerPost

Handlers == ClearHistory \/ settings \/ add_task \/ edit_task
            \/ delete_task \/ listener

Scheduler == ReconTask \/ ReconWhile \/ ReconDone \/ TickStart \/ SweepTask
             \/ ListenerStep \/ Sleep

Next == Scheduler \/ NewIssue \/ Handlers

Spec == Init /\ [][Next]_vars

\* the scheduler thread is a running thread: it takes its next step
FairSpec == Spec /\ WF_vars(Scheduler)

\* ------------------------------------------- requests served inside a tick
\* The web server runs its handlers on threads of their own and nothing
\* excludes them from the scheduler thread: a request is served between two
\* steps of a tick as well.
InTick == pc \in {"sweep", "fetch"} /\ requests < MaxRequests

delete_task_in_tick == InTick /\ DeleteTask

listener_in_tick == InTick /\ ListenerPost

\* delete_task inside a tick, its list comprehension step by step: the
\* request is read and the iterator over the list `tasks` names is made
DeleteBegin ==
    /\ InTick /\ ~deleting.on
    /\ \E id \in Ids(tasks) :
         deleting' = [on |-> TRUE, id |-> id, pos |-> 0, acc |-> <<>>,
                      before |-> Ids(tasks)]
    /\ requests' = requests + 1
    /\ UNCHANGED <<tasks, history, max_history, scf, issues, now_utc,
                   next_id, deleteLog, inflight>>
    /\ UNCHANGED <<schedVars, logVars, startVars, calcVars>>

\* one round of `for t in tasks`: the element at the iterator's position of
\* the list as it is now, kept when its id is not the requested one
DeleteIter ==
    /\ deleting.on /\ deleting.pos < Len(tasks)
    /\ LET t == tasks[deleting.pos + 1] IN
       deleting' = [deleting EXCEPT
                      !.pos = @ + 1,
                      !.acc = IF t.id # deleting.id THEN Append(@, t) ELSE @]
    /\ UNCHANGED <<tasks, history, max_history, scf, issues, now_utc,
                   requests, next_id, deleteLog, inflight>>
    /\ UNCHANGED <<schedVars, logVars, startVars, calcVars>>

\* the dicts the comprehension kept, as they are now: those still in the
\* list may have been written to since they were read
Kept(acc) ==
    [i \in 1..Len(acc) |->
        IF acc[i].id \in Ids(tasks) THEN Live(tasks, acc[i].id) ELSE acc[i]]

\* the iterator is exhausted: the global is bound to the list that was built
DeleteEnd ==
    /\ deleting.on /\ deleting.pos >= Len(tasks)
    /\ tasks' = Kept(deleting.acc)
    /\ deleteLog' = Append(deleteLog,
           [id |-> deleting.id, prints |-> Len(printLog), tick |-> ticks,
            before |-> deleting.before])
    /\ deleting' = NoDelete
    /\ UNCHANGED <<history, max_history, scf, issues, now_utc, requests,
                   next_id, inflight>>
    /\ UNCHANGED <<schedVars, logVars, startVars, calcVars>>

RaceScheduler == ReconTask \/ ReconWhile \/ ReconDone \/ TickStart
                 \/ SweepTask \/ ListenerBegin \/ ListenerEnd \/ Sleep

RaceNext == RaceScheduler \/ NewIssue \/ Handlers \/ delete_task_in_tick
            \/ listener_in_tick \/ DeleteBegin \/ DeleteIter \/ DeleteEnd

RaceSpec == Init /\ [][RaceNext]_vars

\* ------------------------------------- calculate_next as a function alone
\* the values of task['recurring'] the form offers (templates/index.html)
CalcKinds ==
    {NONE, "daily", "weekly", "monthly", "every_weekday", "first_day_month",
     "custom"}

\* stored next_time strings: every day of the first months of 2024, at
\* midnight, in the morning and in the day's last second
CalcStamps ==
    {<<EpochYear, m, d, s>> : m \in 1..CalcMonths, d \in 1..31,
                              s \in {0, 9 * Hour, Day - 1}}

\* task['days'] of a custom task
CalcDays == {{}, {0}, {2}, {5, 6}}

CalcArgs ==
    {[t |-> s, kind |-> k, days |-> {}, out |-> NULL, n |-> 0] :
        s \in {x \in CalcStamps : IsValidIso(x)}, k \in CalcKinds \ {"custom"}}
    \cup {[t |-> s, kind |-> "custom", days |-> d, out |-> NULL, n |-> 0] :
        s \in {x \in CalcStamps : IsValidIso(x)}, d \in CalcDays}

CalcInit ==
    /\ calc \in CalcArgs
    /\ tasks = <<>> /\ tasks0 = <<>> /\ history = <<>>
    /\ max_history = InitMaxHistory
    /\ scf = DefaultListener /\ issues = <<>>
    /\ now_utc = StartAt9 /\ now0 = StartAt9 /\ tz = 0
    /\ pc = "calc" /\ ridx = 1 /\ ns = NULL /\ snap = <<>> /\ idx = 1
    /\ ticks = 0 /\ requests = 0 /\ next_id = 1
    /\ printLog = <<>> /\ fetchLog = <<>> /\ rendered = {} /\ returned = {}
    /\ tickInfo = NoTick /\ histOp = ""
    /\ deleteLog = <<>> /\ inflight = NoFetch /\ deleting = NoDelete

\* the call calculate_next(task['next_time'], task['recurring'], days)
CalcApply ==
    /\ pc = "calc" /\ calc.out = NULL
    /\ calc' = [calc EXCEPT !.out = calculate_next(calc.t, calc.kind,
                                                   calc.days)]
    /\ UNCHANGED <<tasks, history, max_history, scf, issues, now_utc,
                   requests, next_id>>
    /\ UNCHANGED <<schedVars, logVars, startVars, raceVars>>

\* task['next_time'] = the result (lines 287, 308): the next call starts
\* from it
CalcAgain ==
    /\ pc = "calc" /\ calc.out # NULL /\ calc.out # CALC_ERR
    /\ calc.n + 1 < CalcCalls
    /\ calc' = [calc EXCEPT !.t = calc.out, !.out = NULL, !.n = @ + 1]
    /\ UNCHANGED <<tasks, history, max_history, scf, issues, now_utc,
                   requests, next_id>>
    /\ UNCHANGED <<schedVars, logVars, startVars, raceVars>>

CalcNext == CalcApply \/ CalcAgain

CalcSpec == CalcInit /\ [][CalcNext]_vars

\* ================================================================ claims
ReconOver == pc = "tick" /\ ticks = 0    \* reconciled, first tick not begun
TickOver == pc = "sleep" /\ ticks >= 1   \* a tick has just ended

\* C1: a one-shot task that was passed to print_task is out of the task
\* store from then on (so at the end of that tick) and is not passed to
\* print_task a second time.
C1_OneShotFiresOnce ==
    \A k \in 1..Len(printLog) :
        printLog[k][3] = NONE =>
            /\ printLog[k][2] \notin Ids(tasks)
            /\ \A j \in (k + 1)..Len(printLog) :
                   printLog[j][2] # printLog[k][2]

\* a one-shot task fired in an earlier tick, and a later tick has ended
C1_Witness ==
    /\ TickOver
    /\ \E k \in 1..Len(printLog) :
           printLog[k][3] = NONE /\ printLog[k][1] < ticks

\* enabled one-shot tasks that load_data found with next_time in the past
PastOneShots ==
    {tasks0[i].id : i \in {j \in 1..Len(tasks0) :
        /\ tasks0[j].enabled
        /\ tasks0[j].recurring = NONE
        /\ IsValidIso(tasks0[j].next_time)
        /\ FromIso(tasks0[j].next_time) < now0}}

TimesPrinted(id) ==
    Cardinality({k \in 1..Len(printLog) : printLog[k][2] = id})

\* C2: reconciliation ends, the main loop is reached, and when its first
\* tick is over every one-shot task that was past due at startup has been
\* fired exactly once and removed.
C2_PastOneShotDeferred ==
    <>(/\ TickOver
       /\ \A id \in PastOneShots :
              TimesPrinted(id) = 1 /\ id \notin Ids(tasks))

\* C3: when calculate_next fails on a custom task with no weekday, the tick
\* still fires every other due task and still runs the listener block.
C3_EmptyWeekdaysIsolated ==
    (TickOver /\ tickInfo.raised = "OverflowError") =>
        /\ (tickInfo.due \ {tickInfo.by}) \subseteq tickInfo.advanced
        /\ tickInfo.listener

\* C4: whatever a single task raises, at the end of the tick every other
\* task that was due has been fired and advanced and the listener block
\* has run.
C4_TickIsolatesFailures ==
    TickOver =>
        /\ (tickInfo.due \ {tickInfo.by}) \subseteq tickInfo.advanced
        /\ tickInfo.listener

LastFetch(log) == log[Len(log)]

\* last_check changes only in a step that fetches successfully
AdvanceNeedsFetch ==
    scf'.last_check # scf.last_check =>
        /\ Len(fetchLog') = Len(fetchLog) + 1
        /\ LastFetch(fetchLog').ok

\* a failed fetch left last_check as it found it
FailureKeepsLastCheck ==
    (Len(fetchLog') = Len(fetchLog) + 1 /\ ~LastFetch(fetchLog').ok) =>
        scf'.last_check = scf.last_check

\* C5 as stated: last_check moves only on a successful fetch, and a
\* successful fetch that follows a failed one carries the same 'after'.
C5_SameBoundaryAfterFailure ==
    [][/\ AdvanceNeedsFetch
       /\ FailureKeepsLastCheck
       /\ \A k \in 2..Len(fetchLog') :
              (fetchLog'[k].ok /\ ~fetchLog'[k - 1].ok) =>
                  fetchLog'[k].after = fetchLog'[k - 1].after]_vars

\* C5 amended: the same, for a failed fetch that had a last_check to start
\* from; with last_check null every fetch looks back one hour from its own
\* clock reading.
C5_SameBoundaryWhenChecked ==
    [][/\ AdvanceNeedsFetch
       /\ FailureKeepsLastCheck
       /\ \A k \in 2..Len(fetchLog') :
              (fetchLog'[k].ok /\ ~fetchLog'[k - 1].ok) =>
                  IF LastCheckDt(fetchLog'[k - 1].last_check) # -1
                  THEN fetchLog'[k].after = fetchLog'[k - 1].after
                  ELSE fetchLog'[k].after # fetchLog'[k - 1].after]_vars

\* a fetch failed with last_check set, and the next fetch succeeded
C5_Witness ==
    \E k \in 2..Len(fetchLog) :
        /\ fetchLog[k].ok /\ ~fetchLog[k - 1].ok
        /\ fetchLog[k - 1].last_check # NULL
        /\ scf.last_check # fetchLog[k].last_check

\* C6: last_check is never past the creation time of an issue the source
\* returned that has not been rendered.
C6_AtLeastOnce ==
    \A i \in returned \ rendered :
        \/ scf.last_check = NULL
        \/ ~StrLess(issues[i].created_at, scf.last_check)

\* C7: every step leaves at most max_history entries, and a step that
\* lowers max_history leaves exactly the most recent entries that fit.
C7_HistoryBounded ==
    [][/\ Len(history') <= max_history'
       /\ max_history' < max_history =>
              /\ Len(history') = IF Len(history) < max_history'
                                 THEN Len(history) ELSE max_history'
              /\ \A i \in 1..Len(history') : history'[i] = history[i]]_vars

\* the settings handler has just cut a full history down to a lower limit
C7_Witness ==
    /\ histOp = "lower_drop"
    /\ max_history >= 1
    /\ Len(history) = max_history
    /\ Len(printLog) >= 2

\* C8: from process start until the first tick begins nothing has been
\* passed to the printer, the history is empty, and the stored tasks differ
\* from the loaded ones in next_time only.
C8_ReconciliationSilent ==
    (pc = "recon" \/ ReconOver) =>
        /\ printLog = <<>> /\ history = <<>> /\ rendered = {}
        /\ Len(tasks) = Len(tasks0)
        /\ \A i \in 1..Len(tasks) :
               [tasks[i] EXCEPT !.next_time = tasks0[i].next_time] = tasks0[i]

\* reconciliation is running and has absorbed missed occurrences of a task
C8_Witness ==
    /\ pc = "recon"
    /\ \E i \in 1..Len(tasks) : tasks[i].next_time # tasks0[i].next_time

\* recurrence kinds that have a next occurrence
HasSeries(task) ==
    \/ task.recurring \in {"daily", "weekly", "monthly", "every_weekday",
                           "first_day_month"}
    \/ task.recurring = "custom" /\ task.days \cap (0..6) # {}

RECURSIVE Series(_, _, _)
\* the first n + 1 members of the series that starts at the stored string
Series(str, task, n) ==
    IF n = 0 THEN {str}
    ELSE {str} \cup Series(calculate_next(str, task.recurring, task.days),
                           task, n - 1)

PastDueAtStart(i) ==
    /\ tasks0[i].enabled
    /\ HasSeries(tasks0[i])
    /\ IsValidIso(tasks0[i].next_time)
    /\ FromIso(tasks0[i].next_time) < now0

\* C9: when reconciliation is over, an enabled recurring task that was in
\* the past is at the earliest member of its series that is not before the
\* startup instant; a task that was not in the past is as it was loaded.
C9_EarliestNotBeforeStart ==
    ReconOver =>
        \A i \in 1..Len(tasks0) :
            /\ PastDueAtStart(i) =>
                 /\ FromIso(tasks[i].next_time) >= now0
                 /\ tasks[i].next_time
                        \in Series(tasks0[i].next_time, tasks0[i], SeriesDepth)
                 /\ \A m \in Series(tasks0[i].next_time, tasks0[i],
                                    SeriesDepth) :
                        FromIso(m) >= now0 =>
                            FromIso(m) >= FromIso(tasks[i].next_time)
            /\ (IsValidIso(tasks0[i].next_time)
                  /\ FromIso(tasks0[i].next_time) >= now0) =>
                     tasks[i] = tasks0[i]

\* reconciliation is over and has moved a task that was in the past
C9_Witness ==
    /\ ReconOver
    /\ \E i \in 1..Len(tasks0) :
           PastDueAtStart(i) /\ tasks[i].next_time # tasks0[i].next_time

\* the scenario: daily, 2024-01-01T09:00:00, started at 2024-01-03T09:00:01
C10_Scenario(i) ==
    /\ tasks0[i].enabled
    /\ tasks0[i].recurring = "daily"
    /\ tasks0[i].next_time = <<2024, 1, 1, 9 * Hour>>
    /\ now0 = FromIso(<<2024, 1, 3, 9 * Hour + 1>>)

\* C10 as stated: reconciliation leaves the task at 2024-01-03T09:00:00 and
\* prints nothing.
C10_CatchUpToJan3 ==
    ReconOver =>
        \A i \in 1..Len(tasks0) :
            C10_Scenario(i) =>
                /\ tasks[i].next_time = <<2024, 1, 3, 9 * Hour>>
                /\ printLog = <<>> /\ history = <<>>

\* C10 amended: reconciliation leaves the task at 2024-01-04T09:00:00, the
\* first occurrence that is not before the start, and prints nothing.
C10_CatchUpToJan4 ==
    ReconOver =>
        \A i \in 1..Len(tasks0) :
            C10_Scenario(i) =>
                /\ tasks[i].next_time = <<2024, 1, 4, 9 * Hour>>
                /\ printLog = <<>> /\ history = <<>>

\* the scenario's task has been reconciled
C10_Witness ==
    /\ ReconOver
    /\ \E i \in 1..Len(tasks0) :
           C10_Scenario(i) /\ tasks[i].next_time # tasks0[i].next_time

\* ------------------------------------------------------------------- C11
\* this step is a listener check that fetched successfully while last_check
\* was null
NullCheckFetched ==
    /\ scf.last_check = NULL
    /\ Len(fetchLog') = Len(fetchLog) + 1
    /\ fetchLog'[Len(fetchLog')].ok

\* the issues created within the hour before the check
ReturnedNow ==
    {i \in 1..Len(issues) : FromIso(issues[i].created_at) > now_utc - Hour}

Created(i) == FromIso(issues[i].created_at)

PrintedNothing ==
    /\ Len(printLog') = Len(printLog) + 1
    /\ ~printLog'[Len(printLog')][4]

\* C12: when the printer is unavailable for a due task, nothing is added to
\* the history, and still a one-shot task is removed from the store and a
\* recurring task is moved to calculate_next of its stored next_time, which
\* is later than the stored one.
C12_UnavailableStillAdvances ==
    [][PrintedNothing =>
        LET id == printLog'[Len(printLog')][2]
            task == Live(tasks, id)
        IN
        /\ history' = history
        /\ task.recurring = NONE => id \notin Ids(tasks')
        /\ HasSeries(task) =>
             /\ id \in Ids(tasks')
             /\ Live(tasks', id).next_time =
                    calculate_next(task.next_time, task.recurring, task.days)
             /\ FromIso(Live(tasks', id).next_time) > FromIso(task.next_time)
             /\ Live(tasks', id).recurring = task.recurring]_vars

\* in one tick a one-shot task and a daily task were due while the printer
\* was unavailable: the first is gone, the second is moved past the tick
C12_Witness ==
    /\ TickOver
    /\ history = <<>>
    /\ \E a, b \in 1..Len(printLog) :
         /\ printLog[a][3] = NONE /\ ~printLog[a][4]
         /\ printLog[a][2] \notin Ids(tasks)
         /\ printLog[b][3] = "daily" /\ ~printLog[b][4]
         /\ printLog[b][2] \in Ids(tasks)
         /\ FromIso(Live(tasks, printLog[b][2]).next_time) > LocalNow

\* ------------------------------------------------------------------- C13
\* calculate_next has returned for arguments the claim covers: any kind
\* but custom-weekdays without a weekday
CalcReturned ==
    /\ calc.out # NULL
    /\ calc.kind = "custom" => calc.days \cap (0..6) # {}

\* C13 as stated: for every kind, none included, the result of
\* calculate_next is a timestamp strictly after its argument.
C13_StrictlyAfter ==
    CalcReturned =>
        /\ IsValidIso(calc.out)
        /\ FromIso(calc.out) > FromIso(calc.t)

\* C13 amended: for every kind but none the result of calculate_next is a
\* timestamp strictly after its argument; for none it is the argument.
C13_StrictlyAfterUnlessNone ==
    CalcReturned =>
        /\ IsValidIso(calc.out)
        /\ calc.kind # NONE => FromIso(calc.out) > FromIso(calc.t)
        /\ calc.kind = NONE => calc.out = calc.t

\* calculate_next has returned for the last day of January, monthly, and
\* for a custom task with a weekday
C13_Witness ==
    /\ calc.out # NULL
    /\ \/ calc.kind = "monthly" /\ calc.t[2] = 1 /\ calc.t[3] = 31
       \/ calc.kind = "custom" /\ calc.days # {}
    /\ FromIso(calc.out) > FromIso(calc.t)

\* ------------------------------------------------------------------- C14
\* the day number of a datetime, counted from the epoch
DayOf(t) == t \div Day

\* C14: for every-weekday the result is at the same time of day on the
\* earliest Monday-to-Friday day after the argument's day: the Monday after
\* a Friday or a Saturday, and never a Saturday or a Sunday.
C14_NextWeekday ==
    (calc.out # NULL /\ calc.kind = "every_weekday") =>
        LET a == FromIso(calc.t)
            b == FromIso(calc.out)
        IN
        /\ calc.out[4] = calc.t[4]
        /\ DayOf(b) > DayOf(a)
        /\ Weekday(b) \in 0..4
        /\ \A d \in (DayOf(a) + 1)..(DayOf(b) - 1) :
               Weekday(d * Day) \in {5, 6}
        /\ Weekday(a) \in {4, 5} => Weekday(b) = 0
        /\ Weekday(a) = 4 => DayOf(b) = DayOf(a) + 3
        /\ Weekday(a) = 5 => DayOf(b) = DayOf(a) + 2
        /\ calc.t = <<2024, 1, 5, 9 * Hour>> =>
               calc.out = <<2024, 1, 8, 9 * Hour>>
        /\ calc.t = <<2024, 1, 6, 9 * Hour>> =>
               calc.out = <<2024, 1, 8, 9 * Hour>>

\* calculate_next has returned for every-weekday and a Friday or a Saturday
C14_Witness ==
    /\ calc.out # NULL
    /\ calc.kind = "every_weekday"
    /\ calc.t \in {<<2024, 1, 5, 9 * Hour>>, <<2024, 1, 6, 9 * Hour>>}
    /\ Weekday(FromIso(calc.out)) = 0

\* ------------------------------------------------------------------- C15
\* C15: whenever the reconciliation loop finds a stored next_time in the
\* past, the main tick reading its clock at that instant would find the
\* same next_time due: both compare against one clock in one timezone.
C15_SameClock ==
    (pc = "recon" /\ ns # NULL /\ IsValidIso(ns)) =>
        (FromIso(ns) < now_utc => FromIso(ns) <= LocalNow)

\* ------------------------------------------------------------------- C16
\* this step is the listener block of a tick
ListenerRan == pc = "sweep" /\ pc' = "sleep" /\ tickInfo'.listener

\* this step issued the HTTP fetch
Fetched == Len(fetchLog') = Len(fetchLog) + 1

\* the listener is enabled, its filter is not blank and its interval has
\* elapsed since last_check (or there is no last_check)
CheckIsDue ==
    /\ scf.enabled
    /\ scf.request_types \notin {"", " "}
    /\ \/ scf.last_check = NULL
       \/ now_utc - FromIso(scf.last_check) >= scf.interval * 60

\* C16: the listener block fetches only when the listener is enabled, its
\* filter is not blank and last_check is null or at least one interval old;
\* otherwise it leaves the listener's configuration and the history as they
\* were; so a successful check moves last_check by at least one interval.
C16_FetchOnlyWhenDue ==
    [][ListenerRan =>
        /\ Fetched => CheckIsDue
        /\ ~CheckIsDue =>
             /\ ~Fetched
             /\ scf' = scf /\ history' = history
             /\ rendered' = rendered
        /\ (Fetched /\ fetchLog'[Len(fetchLog')].ok
              /\ scf.last_check # NULL) =>
             FromIso(scf'.last_check) - FromIso(scf.last_check)
                 >= scf.interval * 60]_vars

\* a tick has ended whose listener block met an enabled listener with a
\* filter and an interval that had not elapsed, and fetched nothing
C16_Witness ==
    /\ TickOver
    /\ tickInfo.listener
    /\ scf.enabled /\ scf.request_types \notin {"", " "}
    /\ scf.last_check # NULL
    /\ now_utc - FromIso(scf.last_check) < scf.interval * 60
    /\ \A k \in 1..Len(fetchLog) : fetchLog[k].tick # ticks

\* ------------------------------------------------------------------- C17
\* this step is the sweep firing a recurring task that has a next occurrence
FiredRecurring ==
    /\ pc = "sweep"
    /\ Len(printLog') = Len(printLog) + 1
    /\ printLog'[Len(printLog')][2] \in Ids(tasks)
    /\ HasSeries(Live(tasks, printLog'[Len(printLog')][2]))

\* C17 as stated: after a recurring task fires, its new next_time is later
\* than the clock of that tick, so the next tick does not fire it again.
C17_NoBurst ==
    [][FiredRecurring =>
        LET id == printLog'[Len(printLog')][2] IN
        /\ id \in Ids(tasks')
        /\ FromIso(Live(tasks', id).next_time) > LocalNow]_vars

\* ------------------------------------------------------------------- C18
\* calls of print_task for the task in the current tick
PrintedInTick(id) ==
    Cardinality({k \in 1..Len(printLog) :
                    printLog[k][1] = ticks /\ printLog[k][2] = id})

\* C18: at the end of a tick every enabled task that was due when the sweep
\* began has been processed exactly once, one-shot tasks removed during the
\* sweep notwithstanding.
C18_EveryDueOnce ==
    TickOver => \A id \in tickInfo.due : PrintedInTick(id) = 1

\* ------------------------------------------------------------------- C19
\* a task the sweep processes without raising when nothing interferes
WellFormed(task) ==
    /\ IsValidIso(task.next_time)
    /\ task.recurring = NONE \/ HasSeries(task)

\* C19: a task for which delete_task has completed is not passed to
\* print_task afterwards, and when the task is one the sweep handles without
\* error, the tick in which it was deleted is not ended by an exception
\* raised over it.
C19_DeletedStaysSilent ==
    \A d \in 1..Len(deleteLog) :
        /\ \A k \in (deleteLog[d].prints + 1)..Len(printLog) :
               printLog[k][2] # deleteLog[d].id
        /\ ~ /\ deleteLog[d].tick = ticks
             /\ tickInfo.raised # ""
             /\ tickInfo.by = deleteLog[d].id
             /\ \E i \in 1..Len(snap) :
                    snap[i].id = deleteLog[d].id /\ WellFormed(snap[i])

\* ------------------------------------------------------------------- C20
\* C20: when a tick has ended with a successful check, whatever POST
\* /listener did meanwhile, the stored last_check is the time of that check.
C20_AdvanceKept ==
    (/\ pc = "sleep"
     /\ fetchLog # <<>>
     /\ LastFetch(fetchLog).ok
     /\ LastFetch(fetchLog).tick = ticks) =>
        scf.last_check = IsoFormat(LastFetch(fetchLog).now)

\* ------------------------------------------------------------------- C21
\* the one-shot tasks the scheduler fired and removed
FiredOneShots ==
    {printLog[k][2] : k \in {j \in 1..Len(printLog) : printLog[j][3] = NONE}}

\* the ids delete_task was asked to remove
Requested == {deleteLog[d].id : d \in 1..Len(deleteLog)}

\* C21: once a delete_task has completed, every task that was in the store
\* when it began, that no delete_task was asked to remove and that the
\* scheduler has not fired and removed as a one-shot, is in the store.
C21_DeletesOnlyRequested ==
    \A d \in 1..Len(deleteLog) :
        \A id \in deleteLog[d].before \ (Requested \cup FiredOneShots) :
            id \in Ids(tasks)

====
